---- MODULE Spec2Model ----
(***************************************************************************)
(* NeuroAegis Cortex: the analysis / planning pipeline.                    *)
(*                                                                         *)
(*   SpecPlan    PlannerAgent.process, _validate_plan,                     *)
(*               _create_fallback_plan and ActionExecutor.execute_plan     *)
(*               (docs/TECHNICAL_DOCUMENTATION.md)                         *)
(*   SpecVision  geminiService.ts (analyzeFrame, parseResponse,            *)
(*               buildContentsWithContext), the GeminiService class of     *)
(*               docs/GEMINI_3_UPGRADE_GUIDE.md and VisionAgent of         *)
(*               docs/TECHNICAL_DOCUMENTATION.md                           *)
(*   SpecCtx     HistoricalContextBuilder (docs/GEMINI_3_IMPLIMENTATION.md)*)
(*   SpecParse   parseResponse of geminiService.ts                         *)
(*   SpecSelect  selectModel of geminiService.ts within analyzeFrame       *)
(*   SpecMonitor useMonitoring, the VideoFeed capture interval and         *)
(*               analyzeFrameViaBackend                                    *)
(*   SpecExec    ActionExecutor.execute_plan, step by step                 *)
(*   SpecEvents  the event list of useMonitoring and the App's settings    *)
(*   SpecSig     ThoughtSignatureManager (docs/GEMINI_3_IMPLIMENTATION.md) *)
(*   SpecTimed   analyzeFrame, its decrement timers and resetMetrics of    *)
(*               geminiService.ts, on the clock                            *)
(***************************************************************************)
EXTENDS Integers, Sequences, FiniteSets, TLC

VARIABLES
    \* ---- planner / executor ----
    planPhase,      \* "idle" | "incident" | "planned" | "executing"
    incident,       \* the incident handed to PlannerAgent.process: [severity]
    plannerOutput,  \* what the planning call produced: [kind, steps]
    plan,           \* the list PlannerAgent.process returned
    planSource,     \* "none" | "planner" | "fallback"
    execPlan,       \* sorted_plan of ActionExecutor.execute_plan
    \* ---- context window ----
    frameBuffer,    \* HistoricalContextBuilder.frameBuffer
    lastOp,         \* last operation on the context window
    lastEvicted,    \* entries shifted out since (and by) the last addFrame
    lastFrame,      \* the analysis handed to the last addFrame
    \* ---- parseResponse ----
    responseText,   \* the text handed to parseResponse
    parsed,         \* what parseResponse returned for it
    \* ---- geminiService.ts / GeminiService ----
    apiKey,             \* VITE_GEMINI_API_KEY is configured
    genAI,              \* genAI is initialised
    thoughtSignatures,  \* geminiService.ts: module-level thoughtSignatures map
    svcSignatures,      \* GeminiService.thoughtSignatures (upgrade guide)
    recentThreatCount,
    decrementTimers,    \* pending setTimeout decrement callbacks
    analysisMetrics,    \* analysisMetrics.length
    lastModel,          \* model chosen by the last selectModel call
    calls,              \* analyzeFrame calls in submission order
    \* ---- useMonitoring / VideoFeed ----
    isMonitoring,
    streamActive,       \* VideoFeed: the camera stream is attached
    backendConnected,
    events,             \* request numbers of the stored incident events
    currentAnalysis,    \* request number of the displayed event, 0 for null
    scansPerformed,
    incidentsDetected,
    notifications,      \* request numbers whose browser notification was shown
    requests,           \* analyzeFrameViaBackend calls in submission order
    framesCaptured,     \* frames drawn by the capture interval so far
    applied,            \* request numbers in the order their results were applied
    \* ---- ActionExecutor.execute_plan, step by step ----
    execPhase,          \* "idle" | "received" | "validated" | "sorted" |
                        \* "executing" | "returned"
    execInput,          \* the plan handed to execute_plan
    validatedPlan,      \* validated_plan
    sortedPlan,         \* sorted_plan
    stepRunning,        \* the loop is inside _execute_action of its next step
    results,            \* results
    actionLog,          \* records written by _log_action_execution
    \* ---- ThoughtSignatureManager ----
    now,                \* Date.now(), in milliseconds
    signatures,         \* ThoughtSignatureManager.signatures
    lastUsed,           \* per id, when its signature was last stored or read
    sigOp,              \* last operation on the signature manager
    \* ---- geminiService.ts on the clock ----
    callStart,          \* per call of analyzeFrame, when it was sent
    timerDue,           \* when each armed decrement timer is due, in arming order
    threatTimes,        \* when each incident since the last resetMetrics was counted
    \* ---- App settings ----
    maxStoredEvents     \* settings.maxStoredEvents

planVars == <<planPhase, incident, plannerOutput, plan, planSource, execPlan>>
ctxVars == <<frameBuffer, lastOp, lastEvicted, lastFrame>>
parseVars == <<responseText, parsed>>
visionVars == <<apiKey, genAI, thoughtSignatures, svcSignatures, recentThreatCount,
                decrementTimers, analysisMetrics, lastModel, calls>>
monVars == <<isMonitoring, streamActive, backendConnected, events, currentAnalysis,
             scansPerformed, incidentsDetected, notifications, requests,
             framesCaptured, applied>>
execVars == <<execPhase, execInput, validatedPlan, sortedPlan, stepRunning, results,
              actionLog>>
sigVars == <<now, signatures, lastUsed, sigOp>>
timeVars == <<callStart, timerDue, threatTimes>>
setVars == <<maxStoredEvents>>
vars == <<planVars, ctxVars, parseVars, visionVars, monVars, execVars, sigVars, timeVars,
          setVars>>

(***************************************************************************)
(* Bounds                                                                  *)
(***************************************************************************)
MaxPlanLen == 2

\* A key that is missing from a JSON object
Absent == "<absent>"
NoStep == 0

(***************************************************************************)
(* PlannerAgent                                                            *)
(***************************************************************************)
VALID_ACTIONS ==
    {"save_evidence", "log_incident", "record_video", "capture_snapshot",
     "send_alert", "escalate", "notify_staff", "contact_authorities",
     "monitor", "sound_alarm", "lock_door"}

\* the "Evidence & Documentation" actions that preserve evidence
EvidenceActions == {"save_evidence", "record_video", "capture_snapshot"}

PriorityNames == {"immediate", "high", "medium", "low"}

Severities == {"low", "medium", "high", "critical"}

\* dict.get(key, default)
GetOr(v, default) == IF v = Absent THEN default ELSE v

\* raw planner steps the model draws from
RawActions == {"save_evidence", "monitor", "launch_drone", Absent}
RawPriorities == {"immediate", "low", "urgent", Absent}
RawReasonings == {"why", Absent}
RawStepNumbers == {NoStep, 2}

RawSteps ==
    [step : RawStepNumbers, action : RawActions, priority : RawPriorities,
     parameters : {Absent}, reasoning : RawReasonings]

RECURSIVE SeqsUpTo(_, _)
SeqsUpTo(S, n) ==
    IF n = 0 THEN {<<>>}
    ELSE LET shorter == SeqsUpTo(S, n - 1)
         IN shorter \cup {Append(s, x) : s \in {t \in shorter : Len(t) = n - 1}, x \in S}

RawPlans == SeqsUpTo(RawSteps, MaxPlanLen)

\* outcomes of the planning call (generate_content + json.loads):
\*   "error"      the call raised (network failure, timeout)
\*   "badjson"    json.loads raised
\*   "scalar"     JSON that is not iterable (number, null)
\*   "emptydict"  JSON {} : iterable, no keys
\*   "malformed"  a list with an element that is not an object
\*   "list"       a list of step objects
PlannerOutputs ==
    {[kind |-> k, steps |-> <<>>] :
        k \in {"error", "badjson", "scalar", "emptydict", "malformed"}}
    \cup {[kind |-> "list", steps |-> p] : p \in RawPlans}

\* body of the for-loop of _validate_plan; n is len(validated)
ValidateStepKeepAction(step, n) ==
    [step |-> IF step.step = NoStep THEN n + 1 ELSE step.step,
     action |-> GetOr(step.action, "log_incident"),
     priority |-> IF GetOr(step.priority, "medium") \notin PriorityNames
                  THEN "medium" ELSE GetOr(step.priority, "medium"),
     parameters |-> GetOr(step.parameters, "{}"),
     reasoning |-> GetOr(step.reasoning, "")]

ValidateStepLoseReasoning(step, n) ==
    [step |-> IF step.step = NoStep THEN n + 1 ELSE step.step,
     action |-> IF GetOr(step.action, "log_incident") \notin VALID_ACTIONS
                THEN "log_incident" ELSE GetOr(step.action, "log_incident"),
     priority |-> IF GetOr(step.priority, "medium") \notin PriorityNames
                  THEN "medium" ELSE GetOr(step.priority, "medium"),
     parameters |-> GetOr(step.parameters, "{}"),
     reasoning |-> IF GetOr(step.action, "log_incident") \notin VALID_ACTIONS
                   THEN "Invalid action replaced" ELSE GetOr(step.reasoning, "")]

ValidateStep(step, n) ==
    [step |-> IF step.step = NoStep THEN n + 1 ELSE step.step,
     action |-> IF GetOr(step.action, "log_incident") \notin VALID_ACTIONS
                THEN "log_incident" ELSE GetOr(step.action, "log_incident"),
     priority |-> IF GetOr(step.priority, "medium") \notin PriorityNames
                  THEN "medium" ELSE GetOr(step.priority, "medium"),
     parameters |-> GetOr(step.parameters, "{}"),
     reasoning |-> GetOr(step.reasoning, "")]

RECURSIVE ValidateLoop(_, _)
ValidateLoop(rest, validated) ==
    IF rest = <<>> THEN validated
    ELSE ValidateLoop(Tail(rest),
                      Append(validated, ValidateStep(Head(rest), Len(validated))))

_validate_plan(p) == ValidateLoop(p, <<>>)

FallbackStep(n, a, pr, params, why) ==
    [step |-> n, action |-> a, priority |-> pr, parameters |-> params,
     reasoning |-> why]

_create_fallback_plan_alert_first(inc) ==
    IF inc.severity = "low" THEN
        << FallbackStep(1, "save_evidence", "immediate", "{}", "Evidence preservation"),
           FallbackStep(2, "log_incident", "medium", "{}", "Audit trail") >>
    ELSE IF inc.severity = "medium" THEN
        << FallbackStep(1, "save_evidence", "immediate", "{}", "Evidence preservation"),
           FallbackStep(2, "send_alert", "high", "channels:email", "Notification"),
           FallbackStep(3, "monitor", "high", "duration:300", "Enhanced observation"),
           FallbackStep(4, "log_incident", "medium", "{}", "Audit trail") >>
    ELSE IF inc.severity = "high" THEN
        << FallbackStep(1, "send_alert", "immediate", "channels:email,sms", "Urgent notification"),
           FallbackStep(2, "save_evidence", "immediate", "{}", "Evidence preservation"),
           FallbackStep(3, "lock_door", "high", "{}", "Access control"),
           FallbackStep(4, "sound_alarm", "high", "{}", "Deterrence"),
           FallbackStep(5, "contact_authorities", "high", "{}", "Law enforcement"),
           FallbackStep(6, "log_incident", "medium", "{}", "Audit trail") >>
    ELSE
        << FallbackStep(1, "save_evidence", "immediate", "{}", "Evidence preservation"),
           FallbackStep(2, "contact_authorities", "immediate", "service:police,priority:emergency", "Emergency response"),
           FallbackStep(3, "send_alert", "immediate", "channels:email,sms,push", "Multi-channel alert"),
           FallbackStep(4, "sound_alarm", "immediate", "pattern:emergency", "Maximum deterrence"),
           FallbackStep(5, "escalate", "immediate", "{}", "Human intervention"),
           FallbackStep(6, "record_video", "high", "duration:600", "Continuous recording"),
           FallbackStep(7, "notify_staff", "high", "{}", "On-site awareness"),
           FallbackStep(8, "log_incident", "medium", "{}", "Audit trail") >>

_create_fallback_plan(inc) ==
    IF inc.severity = "low" THEN
        << FallbackStep(1, "save_evidence", "immediate", "{}", "Evidence preservation"),
           FallbackStep(2, "log_incident", "medium", "{}", "Audit trail") >>
    ELSE IF inc.severity = "medium" THEN
        << FallbackStep(1, "save_evidence", "immediate", "{}", "Evidence preservation"),
           FallbackStep(2, "send_alert", "high", "channels:email", "Notification"),
           FallbackStep(3, "monitor", "high", "duration:300", "Enhanced observation"),
           FallbackStep(4, "log_incident", "medium", "{}", "Audit trail") >>
    ELSE IF inc.severity = "high" THEN
        << FallbackStep(1, "save_evidence", "immediate", "{}", "Evidence preservation"),
           FallbackStep(2, "send_alert", "immediate", "channels:email,sms", "Urgent notification"),
           FallbackStep(3, "lock_door", "high", "{}", "Access control"),
           FallbackStep(4, "sound_alarm", "high", "{}", "Deterrence"),
           FallbackStep(5, "contact_authorities", "high", "{}", "Law enforcement"),
           FallbackStep(6, "log_incident", "medium", "{}", "Audit trail") >>
    ELSE
        << FallbackStep(1, "save_evidence", "immediate", "{}", "Evidence preservation"),
           FallbackStep(2, "contact_authorities", "immediate", "service:police,priority:emergency", "Emergency response"),
           FallbackStep(3, "send_alert", "immediate", "channels:email,sms,push", "Multi-channel alert"),
           FallbackStep(4, "sound_alarm", "immediate", "pattern:emergency", "Maximum deterrence"),
           FallbackStep(5, "escalate", "immediate", "{}", "Human intervention"),
           FallbackStep(6, "record_video", "high", "duration:600", "Continuous recording"),
           FallbackStep(7, "notify_staff", "high", "{}", "On-site awareness"),
           FallbackStep(8, "log_incident", "medium", "{}", "Audit trail") >>

\* PlannerAgent.process: the try block raises for every outcome but an
\* iterable of step objects; the except branch returns the fallback plan
PlannerRaises(out) == out.kind \in {"error", "badjson", "scalar", "malformed"}

PlannerResult(inc, out) ==
    IF PlannerRaises(out) THEN _create_fallback_plan(inc)
    ELSE _validate_plan(out.steps)

\* ActionExecutor._sort_by_priority: stable, immediate > high > medium > low
OfPriority(p, pr) == SelectSeq(p, LAMBDA s : s.priority = pr)

_sort_by_priority(p) ==
    OfPriority(p, "immediate") \o OfPriority(p, "high")
        \o OfPriority(p, "medium") \o OfPriority(p, "low")

(***************************************************************************)
(* Planner / executor actions                                              *)
(***************************************************************************)
NoIncident == [severity |-> "none"]
NoOutput == [kind |-> "none", steps |-> <<>>]

PlanInit ==
    /\ planPhase = "idle"
    /\ incident = NoIncident
    /\ plannerOutput = NoOutput
    /\ plan = <<>>
    /\ planSource = "none"
    /\ execPlan = <<>>

\* the Vision Agent reports an incident (ARCHITECTURE.md: Incident Detected)
IncidentDetected(sev) ==
    /\ planPhase = "idle"
    /\ planPhase' = "incident"
    /\ incident' = [severity |-> sev]
    /\ plannerOutput' = NoOutput
    /\ plan' = <<>>
    /\ planSource' = "none"
    /\ execPlan' = <<>>
    /\ UNCHANGED <<ctxVars, parseVars, visionVars, monVars, execVars, sigVars, timeVars, setVars>>

\* Backend -> PlannerAgent.process(incident)
PlannerProcess(out) ==
    /\ planPhase = "incident"
    /\ planPhase' = "planned"
    /\ plannerOutput' = out
    /\ plan' = PlannerResult(incident, out)
    /\ planSource' = IF PlannerRaises(out) THEN "fallback" ELSE "planner"
    /\ UNCHANGED <<incident, execPlan>>
    /\ UNCHANGED <<ctxVars, parseVars, visionVars, monVars, execVars, sigVars, timeVars, setVars>>

\* Backend -> ActionExecutor.execute_plan(plan, incident_id): validate, sort
ExecutePlan ==
    /\ planPhase = "planned"
    /\ planPhase' = "executing"
    /\ execPlan' = _sort_by_priority(_validate_plan(plan))
    /\ UNCHANGED <<incident, plannerOutput, plan, planSource>>
    /\ UNCHANGED <<ctxVars, parseVars, visionVars, monVars, execVars, sigVars, timeVars, setVars>>

\* execute_plan returns; the backend is ready for the next incident
ExecutionComplete ==
    /\ planPhase = "executing"
    /\ planPhase' = "idle"
    /\ UNCHANGED <<incident, plannerOutput, plan, planSource, execPlan>>
    /\ UNCHANGED <<ctxVars, parseVars, visionVars, monVars, execVars, sigVars, timeVars, setVars>>

(***************************************************************************)
(* HistoricalContextBuilder (context window)                               *)
(***************************************************************************)
MAX_CONTEXT_TOKENS == 500000
MinRetainedFrames == 10
RecentDetailFrames == 5
ReasoningSliceChars == 100

\* characters of the template literals, placeholders excluded
PromptTemplateChars == 242
SummaryTemplateChars == 129
DetailTemplateChars == 75
\* width of the output of calculateAvgThreat() and getCommonBehaviors()
HelperFieldChars == 8
\* width of a frame number
FrameNumberChars == 3

\* bound on the buffer length: addFrame is not offered beyond this buffer length
MaxBufferLen == 12

\* a type string long enough to exhaust the token budget on its own
HugeTypeChars == 2100000

\* analyses the model appends: [incident, typeChars, reasoningChars]
FrameInputs ==
    { [incident |-> FALSE, typeChars |-> 6, reasoningChars |-> 40],
      [incident |-> TRUE, typeChars |-> 9, reasoningChars |-> 400],
      [incident |-> TRUE, typeChars |-> HugeTypeChars, reasoningChars |-> 400] }

Min(a, b) == IF a < b THEN a ELSE b
Max(a, b) == IF a > b THEN a ELSE b

\* String(n).length for n >= 0
RECURSIVE Digits(_)
Digits(n) == IF n < 10 THEN 1 ELSE 1 + Digits(n \div 10)

RECURSIVE SumSeq(_)
SumSeq(q) == IF q = <<>> THEN 0 ELSE Head(q) + SumSeq(Tail(q))

\* String(boolean).length
BoolChars(b) == IF b THEN 4 ELSE 5

\* buf.slice(-k)
LastK(buf, k) == SubSeq(buf, Max(1, Len(buf) - k + 1), Len(buf))

\* summarizeHistory().length
summarizeHistory(buf) ==
    SummaryTemplateChars
      + Digits(Len(buf))
      + Digits(Len(SelectSeq(buf, LAMBDA f : f.incident)))
      + 1
      + HelperFieldChars + HelperFieldChars

\* length of one element of the map in getRecentDetails
DetailChars(f) ==
    DetailTemplateChars + FrameNumberChars + BoolChars(f.incident)
      + f.typeChars + Min(f.reasoningChars, ReasoningSliceChars)

\* getRecentDetails().length: the last five details joined by "\n"
getRecentDetails(buf) ==
    LET recent == LastK(buf, RecentDetailFrames)
    IN SumSeq([i \in 1..Len(recent) |-> DetailChars(recent[i])])
         + Max(0, Len(recent) - 1)

\* buildContextPrompt().length
buildContextPrompt(buf) ==
    IF Len(buf) = 0 THEN 0
    ELSE PromptTemplateChars + Digits(Len(buf))
           + summarizeHistory(buf) + getRecentDetails(buf)

\* Math.ceil(contextText.length / 4)
estimateTokens(buf) == (buildContextPrompt(buf) + 3) \div 4

pruneIfNeededOnce(buf) ==
    IF estimateTokens(buf) > MAX_CONTEXT_TOKENS /\ Len(buf) > MinRetainedFrames
    THEN Tail(buf) ELSE buf

RECURSIVE pruneIfNeededNoFloor(_)
pruneIfNeededNoFloor(buf) ==
    IF estimateTokens(buf) > MAX_CONTEXT_TOKENS /\ Len(buf) > 0
    THEN pruneIfNeededNoFloor(Tail(buf)) ELSE buf

RECURSIVE pruneIfNeeded(_)
pruneIfNeeded(buf) ==
    IF estimateTokens(buf) > MAX_CONTEXT_TOKENS /\ Len(buf) > MinRetainedFrames
    THEN pruneIfNeeded(Tail(buf)) ELSE buf

\* VisionAgent.max_history: the length of its frame_history deque
max_history == 10

\* no addFrame yet
NoFrame == [incident |-> FALSE, typeChars |-> 0, reasoningChars |-> 0]

CtxInit ==
    /\ frameBuffer = <<>>
    /\ lastOp = "init"
    /\ lastEvicted = 0
    /\ lastFrame = NoFrame

\* addFrame(analysis): push, then pruneIfNeeded
addFrame(analysis) ==
    /\ Len(frameBuffer) < MaxBufferLen
    /\ frameBuffer' = pruneIfNeeded(Append(frameBuffer, analysis))
    /\ lastEvicted' = Len(frameBuffer) + 1 - Len(frameBuffer')
    /\ lastOp' = "addFrame"
    /\ lastFrame' = analysis
    /\ UNCHANGED <<planVars, parseVars, visionVars, monVars, execVars, sigVars, timeVars, setVars>>

\* prune(): pruneIfNeeded with no append before it
prune ==
    /\ frameBuffer' = pruneIfNeeded(frameBuffer)
    /\ lastEvicted' = lastEvicted + Len(frameBuffer) - Len(frameBuffer')
    /\ lastOp' = "prune"
    /\ UNCHANGED lastFrame
    /\ UNCHANGED <<planVars, parseVars, visionVars, monVars, execVars, sigVars, timeVars, setVars>>

(***************************************************************************)
(* parseResponse (geminiService.ts)                                        *)
(***************************************************************************)
\* a number-valued key that is missing
AbsentNum == -1000000

\* A response text is modelled by its structure:
\*   fenced  the text is wrapped in ``` / ```json markers
\*   body    "empty"    the empty string
\*           "garbage"  not JSON
\*           "null"     the JSON literal null
\*           "scalar"   a JSON number, string or boolean
\*           "array"    a JSON array
\*           "object"   a JSON object with the keys below
RawConfidences == {-20, 0, 55, 150, AbsentNum}
RawIncidents == {"true", "false", Absent}
RawSeverities == {"HIGH", "Critical", "low", Absent}

ObjectTexts ==
    [fenced : BOOLEAN, body : {"object"}, incident : RawIncidents,
     severity : RawSeverities, confidence : RawConfidences]

NonObjectText(f, b) ==
    [fenced |-> f, body |-> b, incident |-> Absent, severity |-> Absent,
     confidence |-> AbsentNum]

ResponseTexts ==
    ObjectTexts
    \cup {NonObjectText(f, b) : f \in BOOLEAN, b \in {"garbage", "null", "scalar", "array"}}
    \cup {NonObjectText(FALSE, "empty")}

NoText == NonObjectText(FALSE, "none")

\* String.prototype.toLowerCase on the severities above
toLowerCase(str) ==
    IF str = "HIGH" THEN "high"
    ELSE IF str = "Critical" THEN "critical"
    ELSE str

\* the return value null
NullAnalysis ==
    [isNull |-> TRUE, incident |-> FALSE, severity |-> Absent,
     confidence |-> AbsentNum]

\* JSON.parse(cleanText): the fence markers were stripped before it, so it
\* yields the object whatever "fenced" is; it throws on garbage
JSONParseThrows(text) == text.body = "garbage"

\* the statements after JSON.parse throw a TypeError on null (property read)
\* and on a primitive (property write in module code, which is strict)
PostParseThrows(text) == text.body \in {"null", "scalar"}

parseResponse(text) ==
    IF text.body = "empty" THEN NullAnalysis
    ELSE IF JSONParseThrows(text) \/ PostParseThrows(text) THEN NullAnalysis
    ELSE [isNull |-> FALSE,
          incident |-> IF text.incident = Absent THEN FALSE
                       ELSE text.incident = "true",
          severity |-> IF text.severity # Absent THEN toLowerCase(text.severity)
                       ELSE Absent,
          confidence |-> text.confidence]

ParseInit ==
    /\ responseText = NoText
    /\ parsed = NullAnalysis

\* const parsed = parseResponse(text)
ParseResponse(text) ==
    /\ responseText' = text
    /\ parsed' = parseResponse(text)
    /\ UNCHANGED <<planVars, ctxVars, visionVars, monVars, execVars, sigVars, timeVars, setVars>>

(***************************************************************************)
(* geminiService.ts: analyzeFrame and its helpers; GeminiService           *)
(***************************************************************************)
\* bound: analyzeFrame calls per run
MaxCalls == 2

ESCALATE_TO_PRO_THRESHOLD == 70
ENABLE_AUTO_ESCALATION == TRUE
ENABLE_THOUGHT_SIGNATURES == FALSE
ENABLE_COST_TRACKING == TRUE
RecentThreatLimit == 3
MaxMetrics == 100
FLASH_MODEL == "gemini-3-flash-preview"
PRO_MODEL == "gemini-3-pro-preview"

NoId == "<no incident>"
IncidentIds == {"inc-1", "inc-2"}
NoToken == "<no token>"
Tokens == {"t1", "t2"}
\* context.threatLevel: undefined (0), at the escalation threshold, above it
ThreatLevels == {0, ESCALATE_TO_PRO_THRESHOLD, ESCALATE_TO_PRO_THRESHOLD + 1}

selectModelByTimers(incidentId, threatLevel, threatCount) ==
    IF incidentId # NoId THEN PRO_MODEL
    ELSE IF ENABLE_AUTO_ESCALATION /\ threatLevel # 0
            /\ threatLevel > ESCALATE_TO_PRO_THRESHOLD THEN PRO_MODEL
    ELSE IF decrementTimers > RecentThreatLimit THEN PRO_MODEL
    ELSE FLASH_MODEL

selectModelAtLimit(incidentId, threatLevel, threatCount) ==
    IF incidentId # NoId THEN PRO_MODEL
    ELSE IF ENABLE_AUTO_ESCALATION /\ threatLevel # 0
            /\ threatLevel > ESCALATE_TO_PRO_THRESHOLD THEN PRO_MODEL
    ELSE IF threatCount >= RecentThreatLimit THEN PRO_MODEL
    ELSE FLASH_MODEL

\* selectModel(context), with the module-level recentThreatCount it reads
\* passed as threatCount
selectModel(incidentId, threatLevel, threatCount) ==
    IF incidentId # NoId THEN PRO_MODEL
    ELSE IF ENABLE_AUTO_ESCALATION /\ threatLevel # 0
            /\ threatLevel > ESCALATE_TO_PRO_THRESHOLD THEN PRO_MODEL
    ELSE IF threatCount > RecentThreatLimit THEN PRO_MODEL
    ELSE FLASH_MODEL

\* analyzeFrame: what the request is configured with. getGenerativeModel
\* receives the model name, temperature, maxOutputTokens and
\* responseMimeType: no thinking level and no media resolution
requestConfig(modelName) ==
    [model |-> modelName, thinkingLevel |-> Absent, mediaResolution |-> Absent]

\* no request was built
NoConfig == [model |-> "none", thinkingLevel |-> Absent, mediaResolution |-> Absent]

\* Map.get: undefined is NoToken
MapGet(map, incidentId) == IF incidentId = NoId THEN NoToken ELSE map[incidentId]

\* geminiService.ts buildContentsWithContext: the thoughtSignature part of
\* the contents, NoToken when no such part is pushed
buildContentsWithContext(incidentId) ==
    LET previousSignature == MapGet(thoughtSignatures, incidentId)
    IN IF previousSignature # NoToken /\ ENABLE_THOUGHT_SIGNATURES
       THEN previousSignature ELSE NoToken

svcBuildContentsWithAnyToken(incidentId) ==
    IF incidentId = NoId THEN NoToken
    ELSE IF \E i \in IncidentIds : svcSignatures[i] # NoToken
    THEN svcSignatures[CHOOSE i \in IncidentIds : svcSignatures[i] # NoToken]
    ELSE NoToken

\* GeminiService.buildContentsWithContext (upgrade guide)
svcBuildContentsWithContext(incidentId) == MapGet(svcSignatures, incidentId)

\* trackMetrics: push, shift beyond 100 entries
trackMetrics(n) ==
    IF ~ENABLE_COST_TRACKING THEN n
    ELSE IF n + 1 > MaxMetrics THEN n ELSE n + 1

VisionInit ==
    /\ apiKey \in BOOLEAN
    /\ genAI = FALSE
    /\ thoughtSignatures = [i \in IncidentIds |-> NoToken]
    /\ svcSignatures = [i \in IncidentIds |-> NoToken]
    /\ recentThreatCount = 0
    /\ decrementTimers = 0
    /\ analysisMetrics = 0
    /\ lastModel = "none"
    /\ calls = <<>>

\* recentThreatCount at the start of a selector run: a fresh service, and one
\* that has counted one incident more than the limit in the last five minutes
PressureAtStart == {0, RecentThreatLimit + 1}

\* answers that take analyzeFrame down each of its paths: an object with
\* incident true, false or missing, and text that does not parse
VisionTexts ==
    {t \in ObjectTexts : ~t.fenced /\ t.severity = "low" /\ t.confidence = 55}
        \cup {NonObjectText(FALSE, "garbage")}

\* context.incidentId: absent or present
SelectIds == {NoId, "inc-1"}

\* one answer with an incident and one without
SelectTexts ==
    {t \in ObjectTexts : /\ ~t.fenced /\ t.incident # Absent
                         /\ t.severity = "low" /\ t.confidence = 55}

SelectInit ==
    /\ apiKey = TRUE
    /\ recentThreatCount \in PressureAtStart
    /\ genAI = (recentThreatCount > 0)
    /\ thoughtSignatures = [i \in IncidentIds |-> NoToken]
    /\ svcSignatures = [i \in IncidentIds |-> NoToken]
    /\ decrementTimers = recentThreatCount
    /\ analysisMetrics = recentThreatCount
    /\ lastModel = "none"
    /\ calls = <<>>

\* analyzeFrame without an API key: initGemini fails, the call returns null
AnalyzeFrameNoKey(incidentId) ==
    /\ Len(calls) < MaxCalls
    /\ ~genAI /\ ~apiKey
    /\ calls' = Append(calls, [id |-> incidentId, sig |-> NoToken,
                               svcSig |-> NoToken, status |-> "null",
                               token |-> NoToken,
                               threatLevel |-> 0,
                               pressure |-> recentThreatCount,
                               config |-> NoConfig])
    /\ UNCHANGED <<apiKey, genAI, thoughtSignatures, svcSignatures,
                   recentThreatCount, decrementTimers, analysisMetrics, lastModel>>
    /\ UNCHANGED <<planVars, ctxVars, parseVars, monVars, execVars, sigVars, timeVars, setVars>>

\* analyzeFrame up to "await model.generateContent"
AnalyzeFrameSendStep(incidentId, threatLevel) ==
    /\ Len(calls) < MaxCalls
    /\ genAI \/ apiKey
    /\ genAI' = TRUE
    /\ lastModel' = selectModel(incidentId, threatLevel, recentThreatCount)
    /\ calls' = Append(calls, [id |-> incidentId,
                               sig |-> buildContentsWithContext(incidentId),
                               svcSig |-> svcBuildContentsWithContext(incidentId),
                               status |-> "pending",
                               token |-> NoToken,
                               threatLevel |-> threatLevel,
                               pressure |-> recentThreatCount,
                               config |-> requestConfig(
                                   selectModel(incidentId, threatLevel,
                                               recentThreatCount))])
    /\ UNCHANGED <<apiKey, thoughtSignatures, svcSignatures, recentThreatCount,
                   decrementTimers, analysisMetrics>>
    /\ UNCHANGED <<planVars, ctxVars, parseVars, monVars, execVars, sigVars, setVars>>

AnalyzeFrameSend(incidentId, threatLevel) ==
    /\ AnalyzeFrameSendStep(incidentId, threatLevel)
    /\ UNCHANGED timeVars

\* the response of call c arrives: the rest of the try block
AnalyzeFrameResumeStep(c, text, token) ==
    /\ c \in 1..Len(calls)
    /\ calls[c].status = "pending"
    /\ LET result == parseResponse(text)
       IN /\ analysisMetrics' = trackMetrics(analysisMetrics)
          /\ IF ~result.isNull /\ result.incident
             THEN /\ recentThreatCount' = recentThreatCount + 1
                  /\ decrementTimers' = decrementTimers + 1
             ELSE UNCHANGED <<recentThreatCount, decrementTimers>>
          /\ calls' = [calls EXCEPT ![c].status =
                          IF result.isNull THEN "null" ELSE "done",
                                    ![c].token = token]
    \* GeminiService.analyzeFrame stores the signature before parsing
    /\ svcSignatures' =
          IF calls[c].id # NoId /\ token # NoToken
          THEN [svcSignatures EXCEPT ![calls[c].id] = token]
          ELSE svcSignatures
    /\ UNCHANGED <<apiKey, genAI, thoughtSignatures, lastModel>>
    /\ UNCHANGED <<planVars, ctxVars, parseVars, monVars, execVars, sigVars, setVars>>

AnalyzeFrameResume(c, text, token) ==
    /\ AnalyzeFrameResumeStep(c, text, token)
    /\ UNCHANGED timeVars

\* generateContent rejects (network failure): the catch block returns null
AnalyzeFrameFail(c) ==
    /\ c \in 1..Len(calls)
    /\ calls[c].status = "pending"
    /\ calls' = [calls EXCEPT ![c].status = "failed"]
    /\ UNCHANGED <<apiKey, genAI, thoughtSignatures, svcSignatures,
                   recentThreatCount, decrementTimers, analysisMetrics, lastModel>>
    /\ UNCHANGED <<planVars, ctxVars, parseVars, monVars, execVars, sigVars, timeVars, setVars>>

\* setTimeout(() => recentThreatCount = Math.max(0, recentThreatCount - 1))
DecrementTimerStep ==
    /\ decrementTimers > 0
    /\ decrementTimers' = decrementTimers - 1
    /\ recentThreatCount' = Max(0, recentThreatCount - 1)
    /\ UNCHANGED <<apiKey, genAI, thoughtSignatures, svcSignatures,
                   analysisMetrics, lastModel, calls>>
    /\ UNCHANGED <<planVars, ctxVars, parseVars, monVars, execVars, sigVars, setVars>>

DecrementTimer ==
    /\ DecrementTimerStep
    /\ UNCHANGED timeVars

clearThoughtSignatures ==
    /\ thoughtSignatures' = [i \in IncidentIds |-> NoToken]
    /\ UNCHANGED <<apiKey, genAI, svcSignatures, recentThreatCount,
                   decrementTimers, analysisMetrics, lastModel, calls>>
    /\ UNCHANGED <<planVars, ctxVars, parseVars, monVars, execVars, sigVars, timeVars, setVars>>

resetMetricsStep ==
    /\ analysisMetrics' = 0
    /\ recentThreatCount' = 0
    /\ UNCHANGED <<apiKey, genAI, thoughtSignatures, svcSignatures,
                   decrementTimers, lastModel, calls>>
    /\ UNCHANGED <<planVars, ctxVars, parseVars, monVars, execVars, sigVars, setVars>>

resetMetrics ==
    /\ resetMetricsStep
    /\ UNCHANGED timeVars

(***************************************************************************)
(* useMonitoring (hook), VideoFeed (capture interval),                     *)
(* analyzeFrameViaBackend (apiServices)                                    *)
(***************************************************************************)
\* bound: frames the capture interval draws per run
MaxFrames == 3

\* the fields of the backend's JSON answer the hook branches on
BackendResults == [incident : BOOLEAN, severity : {"low", "high"}]
NoResult == [incident |-> FALSE, severity |-> "none"]

\* why analyzeFrameViaBackend returned null: !response.ok, fetch rejected,
\* the 30 s AbortController timer fired
NullCauses == {"http", "network", "timeout"}

\* one call of analyzeFrameViaBackend(base64): POST {image} to /api/analyze
NewRequest(frame) ==
    [frame |-> frame, status |-> "pending", cause |-> "none", result |-> NoResult]

FailRequestAndRetry(reqs, r, cause) ==
    LET failed == [reqs EXCEPT ![r].status = "null", ![r].cause = cause]
    IN IF Len(reqs) < MaxFrames
       THEN Append(failed, NewRequest(reqs[r].frame))
       ELSE failed

\* analyzeFrameViaBackend returns null; handleFrameCapture takes its else
\* branch: nothing is sent again
FailRequest(reqs, r, cause) ==
    [reqs EXCEPT ![r].status = "null", ![r].cause = cause]

\* NotificationService.sendNotification: the browser notification is shown
\* for high and critical incidents
highSeverity(result) == result.severity = "high"

MonInit ==
    /\ isMonitoring = FALSE
    /\ streamActive = FALSE
    /\ backendConnected = FALSE
    /\ events = <<>>
    /\ currentAnalysis = 0
    /\ scansPerformed = 0
    /\ incidentsDetected = 0
    /\ notifications = <<>>
    /\ requests = <<>>
    /\ framesCaptured = 0
    /\ applied = <<>>

\* VideoFeed camera setup: getUserMedia resolves, setStreamActive(true)
startCamera ==
    /\ ~streamActive
    /\ streamActive' = TRUE
    /\ UNCHANGED <<isMonitoring, backendConnected, events, currentAnalysis,
                   scansPerformed, incidentsDetected, notifications, requests,
                   framesCaptured, applied>>
    /\ UNCHANGED <<planVars, ctxVars, parseVars, visionVars, execVars, sigVars, timeVars, setVars>>

\* the periodic health check of the hook
checkHealth(healthy) ==
    /\ backendConnected' = healthy
    /\ UNCHANGED <<isMonitoring, streamActive, events, currentAnalysis,
                   scansPerformed, incidentsDetected, notifications, requests,
                   framesCaptured, applied>>
    /\ UNCHANGED <<planVars, ctxVars, parseVars, visionVars, execVars, sigVars, timeVars, setVars>>

toggleMonitoring ==
    /\ isMonitoring' = ~isMonitoring
    /\ UNCHANGED <<streamActive, backendConnected, events, currentAnalysis,
                   scansPerformed, incidentsDetected, notifications, requests,
                   framesCaptured, applied>>
    /\ UNCHANGED <<planVars, ctxVars, parseVars, visionVars, execVars, sigVars, timeVars, setVars>>

\* a tick of the 4 s capture interval (it exists only while isMonitoring and
\* streamActive) and handleFrameCapture up to its await
handleFrameCapture ==
    /\ isMonitoring /\ streamActive
    /\ framesCaptured < MaxFrames
    /\ framesCaptured' = framesCaptured + 1
    /\ scansPerformed' = scansPerformed + 1
    /\ requests' = Append(requests, NewRequest(framesCaptured + 1))
    /\ UNCHANGED <<isMonitoring, streamActive, backendConnected, events,
                   currentAnalysis, incidentsDetected, notifications, applied>>
    /\ UNCHANGED <<planVars, ctxVars, parseVars, visionVars, execVars, sigVars, timeVars, setVars>>

\* request r resolves with the backend's JSON: handleFrameCapture after its
\* await, the branch "if (result)"
handleFrameResult(r, result) ==
    /\ r \in 1..Len(requests)
    /\ requests[r].status = "pending"
    /\ requests' = [requests EXCEPT ![r].status = "applied", ![r].result = result]
    /\ backendConnected' = TRUE
    /\ currentAnalysis' = r
    /\ applied' = Append(applied, r)
    /\ IF result.incident
       THEN /\ events' = Append(events, r)
            /\ incidentsDetected' = incidentsDetected + 1
            /\ notifications' = IF highSeverity(result)
                                THEN Append(notifications, r)
                                ELSE notifications
       ELSE UNCHANGED <<events, incidentsDetected, notifications>>
    /\ UNCHANGED <<isMonitoring, streamActive, scansPerformed, framesCaptured>>
    /\ UNCHANGED <<planVars, ctxVars, parseVars, visionVars, execVars, sigVars, timeVars, setVars>>

\* request r comes back null: handleFrameCapture after its await, else branch
handleFrameNull(r, cause) ==
    /\ r \in 1..Len(requests)
    /\ requests[r].status = "pending"
    /\ requests' = FailRequest(requests, r, cause)
    /\ backendConnected' = FALSE
    /\ UNCHANGED <<isMonitoring, streamActive, events, currentAnalysis,
                   scansPerformed, incidentsDetected, notifications,
                   framesCaptured, applied>>
    /\ UNCHANGED <<planVars, ctxVars, parseVars, visionVars, execVars, sigVars, timeVars, setVars>>

clearEvents ==
    /\ events' = <<>>
    /\ currentAnalysis' = 0
    /\ UNCHANGED <<isMonitoring, streamActive, backendConnected, scansPerformed,
                   incidentsDetected, notifications, requests, framesCaptured,
                   applied>>
    /\ UNCHANGED <<planVars, ctxVars, parseVars, visionVars, execVars, sigVars, timeVars, setVars>>

resetStats ==
    /\ scansPerformed' = 0
    /\ incidentsDetected' = 0
    /\ UNCHANGED <<isMonitoring, streamActive, backendConnected, events,
                   currentAnalysis, notifications, requests, framesCaptured,
                   applied>>
    /\ UNCHANGED <<planVars, ctxVars, parseVars, visionVars, execVars, sigVars, timeVars, setVars>>

(***************************************************************************)
(* ActionExecutor.execute_plan, step by step                               *)
(***************************************************************************)
\* bound: steps of a plan handed to execute_plan
MaxExecLen == 3

\* raw plans handed to execute_plan: no step numbers (validation numbers the
\* steps by position), two actions, three priorities and an unknown one
ExecRawSteps ==
    [step : {NoStep}, action : {"save_evidence", "send_alert"},
     priority : {"immediate", "high", "low", "urgent"},
     parameters : {Absent}, reasoning : {"why"}]

ExecPlans == SeqsUpTo(ExecRawSteps, MaxExecLen)

\* how the side effect of a step ends
StepOutcomes == {"completed", "failed"}

ValidatedPlanUnchecked(p) == p

\* validated_plan = self._validate_plan(plan)
ValidatedPlan(p) == _validate_plan(p)

SortedPlanUnsorted(p) == p

\* sorted_plan = self._sort_by_priority(validated_plan)
SortedPlan(p) == _sort_by_priority(p)

RemainingStepsUntilFailure(sorted, res) ==
    IF \E i \in 1..Len(res) : res[i].status = "failed" THEN <<>>
    ELSE SubSeq(sorted, Len(res) + 1, Len(sorted))

\* for step in sorted_plan: the steps the loop has not reached yet
RemainingSteps(sorted, res) == SubSeq(sorted, Len(res) + 1, Len(sorted))

AppendResultIfCompleted(res, result) ==
    IF result.status = "failed" THEN res ELSE Append(res, result)

\* results.append(result)
AppendResult(res, result) == Append(res, result)

\* ActionExecutor._execute_action: performs the side effect and reports how
\* it ended in its result; it does not raise
_execute_action(step, outcome) == [action |-> step.action, status |-> outcome]

\* ActionExecutor._log_action_execution: the audit record of a step
_log_action_execution(step, result) ==
    [step |-> step.step, action |-> step.action, priority |-> step.priority,
     status |-> result.status]

\* the outcome of the plan as a whole, read off the returned execution log
PlanOutcome(res) ==
    IF \A i \in 1..Len(res) : res[i].status = "completed"
    THEN "Completed" ELSE "PartiallyFailed"

ExecInit ==
    /\ execPhase = "idle"
    /\ execInput = <<>>
    /\ validatedPlan = <<>>
    /\ sortedPlan = <<>>
    /\ stepRunning = FALSE
    /\ results = <<>>
    /\ actionLog = <<>>

\* execute_plan(plan, incident_id, evidence_path) is called
execute_plan(p) ==
    /\ execPhase = "idle"
    /\ execPhase' = "received"
    /\ execInput' = p
    /\ UNCHANGED <<validatedPlan, sortedPlan, stepRunning, results, actionLog>>
    /\ UNCHANGED <<planVars, ctxVars, parseVars, visionVars, monVars, sigVars, timeVars, setVars>>

\* validated_plan = self._validate_plan(plan)
ValidatePlan ==
    /\ execPhase = "received"
    /\ execPhase' = "validated"
    /\ validatedPlan' = ValidatedPlan(execInput)
    /\ UNCHANGED <<execInput, sortedPlan, stepRunning, results, actionLog>>
    /\ UNCHANGED <<planVars, ctxVars, parseVars, visionVars, monVars, sigVars, timeVars, setVars>>

\* sorted_plan = self._sort_by_priority(validated_plan)
SortPlan ==
    /\ execPhase = "validated"
    /\ execPhase' = "sorted"
    /\ sortedPlan' = SortedPlan(validatedPlan)
    /\ UNCHANGED <<execInput, validatedPlan, stepRunning, results, actionLog>>
    /\ UNCHANGED <<planVars, ctxVars, parseVars, visionVars, monVars, sigVars, timeVars, setVars>>

\* results = []; the for loop is entered
StartLoop ==
    /\ execPhase = "sorted"
    /\ execPhase' = "executing"
    /\ results' = <<>>
    /\ UNCHANGED <<execInput, validatedPlan, sortedPlan, stepRunning, actionLog>>
    /\ UNCHANGED <<planVars, ctxVars, parseVars, visionVars, monVars, sigVars, timeVars, setVars>>

\* the loop takes its next step and calls _execute_action
BeginStep ==
    /\ execPhase = "executing"
    /\ ~stepRunning
    /\ RemainingSteps(sortedPlan, results) # <<>>
    /\ stepRunning' = TRUE
    /\ UNCHANGED <<execPhase, execInput, validatedPlan, sortedPlan, results, actionLog>>
    /\ UNCHANGED <<planVars, ctxVars, parseVars, visionVars, monVars, sigVars, timeVars, setVars>>

\* the rest of the loop's turn: _execute_action returns its result, await
\* _log_action_execution, results.append
ExecuteStep(outcome) ==
    /\ execPhase = "executing"
    /\ stepRunning
    /\ RemainingSteps(sortedPlan, results) # <<>>
    /\ LET step == Head(RemainingSteps(sortedPlan, results))
           result == _execute_action(step, outcome)
       IN /\ actionLog' = Append(actionLog, _log_action_execution(step, result))
          /\ results' = AppendResult(results, result)
    /\ stepRunning' = FALSE
    /\ UNCHANGED <<execPhase, execInput, validatedPlan, sortedPlan>>
    /\ UNCHANGED <<planVars, ctxVars, parseVars, visionVars, monVars, sigVars, timeVars, setVars>>

\* the loop is over: return results
ExecuteReturn ==
    /\ execPhase = "executing"
    /\ ~stepRunning
    /\ RemainingSteps(sortedPlan, results) = <<>>
    /\ execPhase' = "returned"
    /\ UNCHANGED <<execInput, validatedPlan, sortedPlan, stepRunning, results, actionLog>>
    /\ UNCHANGED <<planVars, ctxVars, parseVars, visionVars, monVars, sigVars, timeVars, setVars>>

(***************************************************************************)
(* The App's settings (hooks/useCamera.ts) next to the monitoring hook     *)
(***************************************************************************)
\* DEFAULT_SETTINGS.maxStoredEvents
DEFAULT_MAX_STORED_EVENTS == 100

\* values saved from the settings panel: the number typed into its field
SettingsInputs == {1, DEFAULT_MAX_STORED_EVENTS}

SetInit == maxStoredEvents = DEFAULT_MAX_STORED_EVENTS

\* handleSettingsChange(newSettings): the settings are replaced; a changed
\* analysisInterval reloads the page, which starts the hook's state afresh
\* (the saved settings are read back from localStorage); a maxStoredEvents
\* below events.length is only logged
handleSettingsChange(newMax, intervalChanged) ==
    /\ maxStoredEvents' = newMax
    /\ IF intervalChanged
       THEN /\ isMonitoring' = FALSE
            /\ streamActive' = FALSE
            /\ backendConnected' = FALSE
            /\ events' = <<>>
            /\ currentAnalysis' = 0
            /\ scansPerformed' = 0
            /\ incidentsDetected' = 0
            /\ requests' = <<>>
            /\ applied' = <<>>
            /\ UNCHANGED <<notifications, framesCaptured>>
       ELSE UNCHANGED monVars
    /\ UNCHANGED <<planVars, ctxVars, parseVars, visionVars, execVars, sigVars, timeVars>>

(***************************************************************************)
(* ThoughtSignatureManager (docs/GEMINI_3_IMPLIMENTATION.md): the store of *)
(* thought signatures with its cleanup sweep.  Date.now() is the variable  *)
(* now, in milliseconds.                                                   *)
(***************************************************************************)
\* cleanup(maxAge: number = 3600000)
DefaultMaxAge == 3600000

\* the clock is observed at multiples of half the retention window
ClockStep == DefaultMaxAge \div 2
MaxTicks == 4
MaxFrameCount == 3

NoEntry == [stored |-> FALSE, timestamp |-> 0, frameCount |-> 0]

SigInit ==
    /\ now = 0
    /\ signatures = [id \in IncidentIds |-> NoEntry]
    /\ lastUsed = [id \in IncidentIds |-> 0]
    /\ sigOp = "init"

Tick ==
    /\ now < MaxTicks * ClockStep
    /\ now' = now + ClockStep
    /\ sigOp' = "tick"
    /\ UNCHANGED <<signatures, lastUsed>>
    /\ UNCHANGED <<planVars, ctxVars, parseVars, visionVars, monVars, execVars, timeVars, setVars>>

storeSignature(incidentId) ==
    /\ signatures' = [signatures EXCEPT ![incidentId] =
                          [stored |-> TRUE, timestamp |-> now, frameCount |-> 1]]
    /\ lastUsed' = [lastUsed EXCEPT ![incidentId] = now]
    /\ sigOp' = "storeSignature"
    /\ UNCHANGED now
    /\ UNCHANGED <<planVars, ctxVars, parseVars, visionVars, monVars, execVars, timeVars, setVars>>

\* getSignature of an id that is not stored returns null and changes nothing
getSignature(incidentId) ==
    /\ signatures[incidentId].stored
    /\ signatures[incidentId].frameCount < MaxFrameCount
    /\ signatures' = [signatures EXCEPT ![incidentId].frameCount = @ + 1]
    /\ lastUsed' = [lastUsed EXCEPT ![incidentId] = now]
    /\ sigOp' = "getSignature"
    /\ UNCHANGED now
    /\ UNCHANGED <<planVars, ctxVars, parseVars, visionVars, monVars, execVars, timeVars, setVars>>

cleanupSignatures(sigs, t, maxAge) ==
    [id \in DOMAIN sigs |->
        IF sigs[id].stored /\ t - sigs[id].timestamp > maxAge
        THEN NoEntry ELSE sigs[id]]

cleanup ==
    /\ signatures' = cleanupSignatures(signatures, now, DefaultMaxAge)
    /\ sigOp' = "cleanup"
    /\ UNCHANGED <<now, lastUsed>>
    /\ UNCHANGED <<planVars, ctxVars, parseVars, visionVars, monVars, execVars, timeVars, setVars>>

(***************************************************************************)
(* geminiService.ts on the clock: Date.now() is the variable now.  A timer *)
(* set with setTimeout runs when it is due: time does not pass a due timer.*)
(***************************************************************************)
\* setTimeout(..., 300000) in analyzeFrame
PRESSURE_WINDOW == 300000
\* setTimeout(() => controller.abort(), 30000) in analyzeFrameViaBackend
ANALYSIS_TIMEOUT == 30000

TimeStep == PRESSURE_WINDOW \div 3
MaxTimeSteps == 4

TimeInit ==
    /\ callStart = <<>>
    /\ timerDue = <<>>
    /\ threatTimes = <<>>

Elapse ==
    /\ now < MaxTimeSteps * TimeStep
    /\ IF timerDue = <<>> THEN TRUE ELSE now + TimeStep <= Head(timerDue)
    /\ now' = now + TimeStep
    /\ UNCHANGED <<signatures, lastUsed, sigOp>>
    /\ UNCHANGED <<planVars, ctxVars, parseVars, visionVars, monVars, execVars, timeVars, setVars>>

AnalyzeFrameSendAt(incidentId, threatLevel) ==
    /\ AnalyzeFrameSendStep(incidentId, threatLevel)
    /\ callStart' = Append(callStart, now)
    /\ UNCHANGED <<timerDue, threatTimes>>

AnalyzeFrameResumeAt(c, text, token) ==
    /\ AnalyzeFrameResumeStep(c, text, token)
    /\ IF ~parseResponse(text).isNull /\ parseResponse(text).incident
       THEN /\ timerDue' = Append(timerDue, now + PRESSURE_WINDOW)
            /\ threatTimes' = Append(threatTimes, now)
       ELSE UNCHANGED <<timerDue, threatTimes>>
    /\ UNCHANGED callStart

DecrementTimerAt ==
    /\ timerDue # <<>>
    /\ Head(timerDue) <= now
    /\ DecrementTimerStep
    /\ timerDue' = Tail(timerDue)
    /\ UNCHANGED <<callStart, threatTimes>>

resetMetricsAt ==
    /\ resetMetricsStep
    /\ threatTimes' = <<>>
    /\ UNCHANGED <<callStart, timerDue>>

(***************************************************************************)
(* Specifications                                                          *)
(***************************************************************************)
SpecPlanInit ==
    PlanInit /\ CtxInit /\ ParseInit /\ VisionInit /\ MonInit /\ ExecInit /\ SigInit /\ TimeInit /\ SetInit /\ apiKey
SpecPlanNext ==
    \/ \E sev \in Severities : IncidentDetected(sev)
    \/ planPhase = "incident" /\ \E out \in PlannerOutputs : PlannerProcess(out)
    \/ ExecutePlan
    \/ ExecutionComplete
SpecPlan == SpecPlanInit /\ [][SpecPlanNext]_vars

SpecCtxInit ==
    PlanInit /\ CtxInit /\ ParseInit /\ VisionInit /\ MonInit /\ ExecInit /\ SigInit /\ TimeInit /\ SetInit /\ apiKey
SpecCtxNext ==
    \/ \E analysis \in FrameInputs : addFrame(analysis)
    \/ prune
SpecCtx == SpecCtxInit /\ [][SpecCtxNext]_vars

SpecParseInit ==
    PlanInit /\ CtxInit /\ ParseInit /\ VisionInit /\ MonInit /\ ExecInit /\ SigInit /\ TimeInit /\ SetInit /\ apiKey
SpecParseNext == \E text \in ResponseTexts : ParseResponse(text)
SpecParse == SpecParseInit /\ [][SpecParseNext]_vars

SpecVisionInit ==
    PlanInit /\ CtxInit /\ ParseInit /\ VisionInit /\ MonInit /\ ExecInit /\ SigInit /\ TimeInit /\ SetInit
SpecVisionNext ==
    \/ \E id \in IncidentIds \cup {NoId} : AnalyzeFrameNoKey(id)
    \* the context carries no threatLevel here; SpecSelect varies it
    \/ \E id \in IncidentIds \cup {NoId} : AnalyzeFrameSend(id, 0)
    \/ \E c \in 1..Len(calls), text \in VisionTexts, token \in Tokens \cup {NoToken} :
          AnalyzeFrameResume(c, text, token)
    \/ \E c \in 1..Len(calls) : AnalyzeFrameFail(c)
    \/ DecrementTimer
    \/ clearThoughtSignatures
    \/ resetMetrics
SpecVision == SpecVisionInit /\ [][SpecVisionNext]_vars

\* the selector: the service with the incidents of the last five minutes
\* counted, each with its decrement timer still pending
SpecSelectInit ==
    PlanInit /\ CtxInit /\ ParseInit /\ SelectInit /\ MonInit /\ ExecInit /\ SigInit /\ TimeInit /\ SetInit
SpecSelectNext ==
    \/ \E id \in SelectIds, tl \in ThreatLevels : AnalyzeFrameSend(id, tl)
    \/ \E c \in 1..Len(calls), text \in SelectTexts :
          AnalyzeFrameResume(c, text, NoToken)
    \/ DecrementTimer
    \/ resetMetrics
SpecSelect == SpecSelectInit /\ [][SpecSelectNext]_vars

SpecExecInit ==
    PlanInit /\ CtxInit /\ ParseInit /\ VisionInit /\ MonInit /\ ExecInit /\ SigInit /\ TimeInit /\ SetInit /\ apiKey
SpecExecNext ==
    \/ execPhase = "idle" /\ \E p \in ExecPlans : execute_plan(p)
    \/ ValidatePlan
    \/ SortPlan
    \/ StartLoop
    \/ BeginStep
    \/ \E outcome \in StepOutcomes : ExecuteStep(outcome)
    \/ ExecuteReturn
SpecExec == SpecExecInit /\ [][SpecExecNext]_vars

SpecMonitorInit ==
    PlanInit /\ CtxInit /\ ParseInit /\ VisionInit /\ MonInit /\ ExecInit /\ SigInit /\ TimeInit /\ SetInit /\ apiKey
SpecMonitorNext ==
    \/ startCamera
    \/ \E healthy \in BOOLEAN : checkHealth(healthy)
    \/ toggleMonitoring
    \/ handleFrameCapture
    \/ \E r \in 1..Len(requests), result \in BackendResults :
          handleFrameResult(r, result)
    \/ \E r \in 1..Len(requests), cause \in NullCauses : handleFrameNull(r, cause)
    \/ clearEvents
    \/ resetStats
SpecMonitor == SpecMonitorInit /\ [][SpecMonitorNext]_vars

SpecEventsInit ==
    PlanInit /\ CtxInit /\ ParseInit /\ VisionInit /\ MonInit /\ ExecInit /\ SigInit /\ TimeInit /\ SetInit /\ apiKey
SpecEventsNext ==
    \/ startCamera
    \/ toggleMonitoring
    \/ handleFrameCapture
    \/ \E r \in 1..Len(requests), result \in BackendResults :
          handleFrameResult(r, result)
    \/ clearEvents
    \/ \E newMax \in SettingsInputs, intervalChanged \in BOOLEAN :
          handleSettingsChange(newMax, intervalChanged)
SpecEvents == SpecEventsInit /\ [][SpecEventsNext]_vars

SpecSigInit ==
    PlanInit /\ CtxInit /\ ParseInit /\ VisionInit /\ MonInit /\ ExecInit /\ SigInit /\ TimeInit /\ SetInit /\ apiKey
SpecSigNext ==
    \/ Tick
    \/ \E id \in IncidentIds : storeSignature(id)
    \/ \E id \in IncidentIds : getSignature(id)
    \/ cleanup
SpecSig == SpecSigInit /\ [][SpecSigNext]_vars

SpecTimedInit ==
    PlanInit /\ CtxInit /\ ParseInit /\ VisionInit /\ MonInit /\ ExecInit /\ SigInit /\ TimeInit /\ SetInit /\ apiKey
SpecTimedNext ==
    \/ Elapse
    \/ AnalyzeFrameSendAt(NoId, 0)
    \/ \E c \in 1..MaxCalls, text \in VisionTexts : AnalyzeFrameResumeAt(c, text, NoToken)
    \/ \E c \in 1..MaxCalls : AnalyzeFrameFail(c)
    \/ DecrementTimerAt
    \/ resetMetricsAt
SpecTimed == SpecTimedInit /\ [][SpecTimedNext]_vars

(***************************************************************************)
(* Properties                                                              *)
(***************************************************************************)

\* the planner call produced a list of step objects that was validated
ValidatedFromPlanner ==
    /\ planPhase \in {"planned", "executing"}
    /\ planSource = "planner"
    /\ plannerOutput.kind = "list"

\* C1: when the raw step list has a step whose action is outside the closed
\* vocabulary, the validated plan is at least as long as the input and every
\* one of its actions is in the closed vocabulary.
C1_ValidateClosesVocabulary ==
    (/\ ValidatedFromPlanner
     /\ \E i \in 1..Len(plannerOutput.steps) :
            plannerOutput.steps[i].action \notin VALID_ACTIONS)
    => /\ Len(plan) >= Len(plannerOutput.steps)
       /\ \A i \in 1..Len(plan) : plan[i].action \in VALID_ACTIONS

\* a two-step raw plan naming launch_drone has been validated
C1_Witness ==
    /\ ValidatedFromPlanner
    /\ Len(plannerOutput.steps) = 2
    /\ plannerOutput.steps[1].action = "launch_drone"
    /\ plannerOutput.steps[2].action = "monitor"
    /\ Len(plan) = 2

\* C2: for each severity the fallback plan is non-empty and its first step
\* in priority order is an evidence-preservation action of priority
\* immediate.
C2_FallbackStartsWithEvidence ==
    (planSource = "fallback" /\ incident.severity \in Severities)
    => LET p == _sort_by_priority(plan)
       IN /\ plan = _create_fallback_plan(incident)
          /\ Len(p) >= 1
          /\ p[1].action \in EvidenceActions
          /\ p[1].priority = "immediate"

\* the fallback plan of a high-severity incident after a failed planning call
C2_Witness ==
    /\ planSource = "fallback"
    /\ incident.severity = "high"
    /\ plannerOutput.kind = "error"
    /\ Len(plan) = 6

\* the planning call failed, or returned an empty or invalid plan
PlanningFailed(out) ==
    \/ out.kind \in {"error", "badjson", "scalar", "malformed", "emptydict"}
    \/ out.kind = "list" /\ out.steps = <<>>

\* C3: whenever the planning call fails, times out or returns an empty or
\* invalid plan, the plan that is executed is fallbackPlan(severity); for a
\* critical incident whose planner returned [] it is the 8-step plan.
C3_FallbackOnPlanningFailure ==
    (planPhase = "executing" /\ PlanningFailed(plannerOutput))
    => /\ execPlan = _sort_by_priority(_create_fallback_plan(incident))
       /\ incident.severity = "critical" => Len(execPlan) = 8

\* C4: every plan that reaches execution has an evidence-preservation step
\* of priority immediate as its step 1.
C4_ExecutedPlanStartsWithEvidence ==
    planPhase = "executing"
    => /\ Len(execPlan) >= 1
       /\ execPlan[1].action \in EvidenceActions
       /\ execPlan[1].priority = "immediate"

\* C5: every analysis normalised from parseable JSON has its confidence in
\* [0,100]: below 0 is stored as 0, above 100 is stored as 100.
C5_ConfidenceClamped ==
    (~parsed.isNull /\ responseText.confidence # AbsentNum)
    => /\ parsed.confidence >= 0 /\ parsed.confidence <= 100
       /\ responseText.confidence < 0 => parsed.confidence = 0
       /\ responseText.confidence > 100 => parsed.confidence = 100

\* the text cannot be parsed as the expected JSON structure
Unparseable(text) == text.body \in {"empty", "garbage", "null", "scalar", "array"}

\* C6: for a text that cannot be parsed the normaliser returns an analysis
\* with incident = false (and does not throw).
C6_UnparseableYieldsSafeAnalysis ==
    Unparseable(responseText) => (~parsed.isNull /\ parsed.incident = FALSE)

\* C7: once two analyses submitted in the order A1, A2 for one
\* investigation have both completed, the store holds A2's token.
C7_StoreHoldsLastSubmittedToken ==
    \A i, j \in 1..Len(calls) :
        (/\ i < j
         /\ calls[i].id # NoId /\ calls[i].id = calls[j].id
         /\ calls[i].status = "done" /\ calls[i].token # NoToken
         /\ calls[j].status = "done" /\ calls[j].token # NoToken
         /\ calls[i].token # calls[j].token
         /\ \A k \in 1..Len(calls) : k > j => calls[k].id # calls[j].id)
        => /\ MapGet(thoughtSignatures, calls[j].id) = calls[j].token
           /\ MapGet(svcSignatures, calls[j].id) = calls[j].token

\* C8: a request built for an investigation after a response for the same
\* investigation has delivered a continuation token carries that token
\* (svcSig is the token of the latest completed response for the id at the
\* time the request was built).
C8_SecondRequestCarriesToken ==
    \A c \in 1..Len(calls) :
        (calls[c].id # NoId /\ calls[c].svcSig # NoToken)
        => calls[c].sig = calls[c].svcSig

\* C9: a raw step at position i that names an action outside the closed
\* vocabulary becomes, at the same position i of the validated plan, a
\* log_incident step carrying the raw step's rationale unchanged.
C9_InvalidActionRewrittenInPlace ==
    ValidatedFromPlanner
    => \A i \in 1..Len(plannerOutput.steps) :
          LET raw == plannerOutput.steps[i]
          IN (raw.action \notin VALID_ACTIONS /\ raw.action # Absent)
             => /\ i <= Len(plan)
                /\ plan[i].action = "log_incident"
                /\ plan[i].reasoning = GetOr(raw.reasoning, "")

\* launch_drone at position 2, with a rationale, has been validated
C9_Witness ==
    /\ ValidatedFromPlanner
    /\ Len(plannerOutput.steps) = 2
    /\ plannerOutput.steps[1].action = "save_evidence"
    /\ plannerOutput.steps[2].action = "launch_drone"
    /\ plannerOutput.steps[2].reasoning = "why"
    /\ plan[2].action = "log_incident"
    /\ plan[2].reasoning = "why"

\* C10: prune is idempotent: once pruneIfNeeded has run (inside addFrame or
\* as an explicit prune) and nothing has been appended since, running it
\* again leaves the buffer exactly as it is.
C10_PruneIdempotent ==
    lastOp \in {"addFrame", "prune"} => pruneIfNeeded(frameBuffer) = frameBuffer

\* a second prune in succession after a prune that evicted two entries
C10_Witness ==
    /\ lastOp = "prune"
    /\ lastEvicted >= 2
    /\ Len(frameBuffer) = MinRetainedFrames
    /\ estimateTokens(frameBuffer) > MAX_CONTEXT_TOKENS

\* C11: every frame the hook submits carries the same (absent) investigation
\* id; their results are applied to the displayed state in submission order:
\* no later frame's result is applied before an earlier frame's.
C11_ResultsAppliedInSubmissionOrder ==
    \A i, j \in 1..Len(applied) : i < j => applied[i] < applied[j]

\* C12: while monitoring is stopped, a call that completes leaves the
\* current analysis, the event list, the incident counter and the
\* notifications as they were.
C12_ResultDiscardedWhenStopped ==
    [][(~isMonitoring /\ ~isMonitoring' /\ requests' # requests)
        => UNCHANGED <<currentAnalysis, events, incidentsDetected, notifications>>]_vars

\* C13: a failed or timed-out call is not repeated for its frame (every
\* request carries a frame of its own, later requests carry later frames),
\* and the capture of the next frame stays available after a failure.
C13_NoResendAfterFailure ==
    /\ \A i, j \in 1..Len(requests) :
          i < j => requests[i].frame < requests[j].frame
    /\ ((\E r \in 1..Len(requests) : requests[r].status = "null")
         /\ isMonitoring /\ streamActive /\ framesCaptured < MaxFrames)
        => ENABLED handleFrameCapture

\* the first call timed out, the frame captured after it was analysed and
\* its result is displayed
C13_Witness ==
    /\ Len(requests) >= 2
    /\ requests[1].status = "null" /\ requests[1].cause = "timeout"
    /\ requests[2].status = "applied" /\ requests[2].frame = 2
    /\ currentAnalysis = 2

\* the selector rules as conditions on the arguments of a call
SelectsDeep(call) ==
    \/ call.id # NoId
    \/ call.threatLevel > ESCALATE_TO_PRO_THRESHOLD
    \/ call.pressure > RecentThreatLimit

PriorityRank(pr) ==
    IF pr = "immediate" THEN 0
    ELSE IF pr = "high" THEN 1
    ELSE IF pr = "medium" THEN 2
    ELSE 3

C17_StepIndexSequential ==
    ValidatedFromPlanner => \A i \in 1..Len(plan) : plan[i].step = i

EveryStepCompleted ==
    /\ Len(actionLog) = Len(sortedPlan)
    /\ \A k \in 1..Len(actionLog) : actionLog[k].status = "completed"

StoredUnderSameId(c, token) ==
    \E d \in 1..Len(calls) :
        d # c /\ calls[d].id = calls[c].id /\ calls[d].token = token

\* C20: a request without investigation id carries no continuation token,
\* and a request for an investigation id carries only a token that was
\* received, and so stored, under that same id.
C20_TokenStaysWithItsInvestigation ==
    \A c \in 1..Len(calls) :
        /\ calls[c].id = NoId
           => calls[c].sig = NoToken /\ calls[c].svcSig = NoToken
        /\ calls[c].sig # NoToken => StoredUnderSameId(c, calls[c].sig)
        /\ calls[c].svcSig # NoToken => StoredUnderSameId(c, calls[c].svcSig)

\* a token was received for inc-1; the request then built for inc-2
\* carries no token
C20_Witness ==
    /\ Len(calls) = 2
    /\ calls[1].id = "inc-1" /\ calls[1].status = "done" /\ calls[1].token = "t1"
    /\ svcSignatures["inc-1"] = "t1"
    /\ calls[2].id = "inc-2" /\ calls[2].status = "pending"
    /\ calls[2].sig = NoToken /\ calls[2].svcSig = NoToken

\* C21: after every append the context window holds at most the count
\* ceiling of entries and its serialization is within the token budget.
C21_BothCeilingsAfterAppend ==
    lastOp = "addFrame"
    => /\ Len(frameBuffer) <= max_history
       /\ estimateTokens(frameBuffer) <= MAX_CONTEXT_TOKENS

\* the entries of the buffer that a step shifts out: the oldest ones, as
\* many as the buffer is shorter afterwards (an addFrame pushes one first)
ShiftedOut ==
    LET pushed == IF lastOp' = "addFrame" THEN 1 ELSE 0
    IN 1..Min(Len(frameBuffer), Len(frameBuffer) + pushed - Len(frameBuffer'))

\* C22: eviction for size removes no entry of an incident, and the buffer
\* never holds more entries than the count ceiling.
C22_IncidentEntriesKept ==
    [][/\ \A i \in ShiftedOut : ~frameBuffer[i].incident
       /\ Len(frameBuffer') <= max_history]_vars

\* C23: after addFrame(a) and the pruning it runs, a is in the buffer, as
\* its newest entry.
C23_CurrentFrameKept ==
    lastOp = "addFrame"
    => /\ Len(frameBuffer) >= 1
       /\ frameBuffer[Len(frameBuffer)] = lastFrame

\* an addFrame of an over-budget frame shifted older entries out and the
\* frame is still there
C23_Witness ==
    /\ lastOp = "addFrame"
    /\ lastEvicted >= 1
    /\ lastFrame.typeChars = HugeTypeChars
    /\ frameBuffer[Len(frameBuffer)] = lastFrame
    /\ estimateTokens(frameBuffer) > MAX_CONTEXT_TOKENS

\* C24: a sweep removes exactly the stored entries whose last use (the
\* token stored or handed out) is older than the retention window: such an
\* entry is gone after the sweep, and an entry used within the window stays.
C24_SweepRemovesExactlyExpired ==
    [][sigOp' = "cleanup"
       => \A id \in IncidentIds :
            signatures[id].stored
            => (signatures'[id].stored <=> now - lastUsed[id] <= DefaultMaxAge)]_vars

\* C25: no call of analyzeFrame is still pending once more than the fixed
\* timeout has passed since it was sent.
C25_NoCallPendingPastTimeout ==
    \A c \in DOMAIN calls :
        calls[c].status = "pending" => now - callStart[c] <= ANALYSIS_TIMEOUT

\* the incidents counted since the last resetMetrics that are at most
\* (less than) age milliseconds old
ThreatsWithin(age) ==
    Cardinality({i \in DOMAIN threatTimes : now - threatTimes[i] < age})

\* C28: recentThreatCount is the number of incident analyses completed
\* within the preceding 300000 ms and since the last resetMetrics (an
\* incident exactly 300000 ms old may or may not be counted still).
C28_CountIsIncidentsInWindow ==
    /\ ThreatsWithin(PRESSURE_WINDOW) <= recentThreatCount
    /\ recentThreatCount <= ThreatsWithin(PRESSURE_WINDOW + 1)

\* the phases of a plan, in order: Received, Validated, Sorted, Executing,
\* and returned (Completed or PartiallyFailed, as PlanOutcome reads it)
PlanPhaseSteps ==
    {<<"idle", "received">>, <<"received", "validated">>,
     <<"validated", "sorted">>, <<"sorted", "executing">>,
     <<"executing", "returned">>}

\* C26: a plan goes through received, validated, sorted, executing and
\* returned in this order without skipping one, and whenever a step has
\* started or finished, the plan being executed is the whole input plan
\* validated and then sorted.
C26_PlanPhasesInOrder ==
    /\ []((stepRunning \/ actionLog # <<>> \/ results # <<>>)
           => /\ execPhase \in {"executing", "returned"}
              /\ validatedPlan = _validate_plan(execInput)
              /\ sortedPlan = _sort_by_priority(validatedPlan))
    /\ [][execPhase' # execPhase
            => <<execPhase, execPhase'>> \in PlanPhaseSteps]_vars

\* a two-step plan that sorting reordered has returned PartiallyFailed
C26_Witness ==
    /\ execPhase = "returned"
    /\ Len(execInput) = 2
    /\ sortedPlan # validatedPlan
    /\ PlanOutcome(results) = "PartiallyFailed"

\* the status of step i of the sorted plan: the status of its result once
\* it has one, executing while the loop is inside its _execute_action,
\* pending before
StepStatus(res, running, i) ==
    IF i <= Len(res) THEN res[i].status
    ELSE IF running /\ i = Len(res) + 1 THEN "executing"
    ELSE "pending"

\* C27: the status of a step changes only from pending to executing and
\* from executing to completed or failed; completed and failed are final.
C27_StepStatusTransitions ==
    [][\A i \in 1..Len(sortedPlan') :
          LET before == StepStatus(results, stepRunning, i)
              after == StepStatus(results', stepRunning', i)
          IN before # after
             => <<before, after>> \in {<<"pending", "executing">>,
                                        <<"executing", "completed">>,
                                        <<"executing", "failed">>}]_vars

\* of three steps the first has failed, the second is executing and the
\* third is pending
C27_Witness ==
    /\ execPhase = "executing"
    /\ Len(sortedPlan) = 3
    /\ StepStatus(results, stepRunning, 1) = "failed"
    /\ StepStatus(results, stepRunning, 2) = "executing"
    /\ StepStatus(results, stepRunning, 3) = "pending"

\* C29: the number of incidents detected never exceeds the number of scans
\* performed.
C29_IncidentsWithinScans == incidentsDetected <= scansPerformed

\* C30: the event list never holds more events than settings.maxStoredEvents.
C30_EventsWithinMaxStored == Len(events) <= maxStoredEvents

====
